---- MODULE Spec2Model ----
(***************************************************************************)
(* Model of scripts/extract_xdf.py: the extraction pipeline build_entries  *)
(* (line normalizer, heading / example parsers, entry aggregator, recovery *)
(* pass, confidence scorer).                                               *)
(*                                                                         *)
(* A string is a sequence of characters and a character is its Unicode     *)
(* code point, so that character classes ([A-Za-z], \d, \s, the CJK range  *)
(* U+4E00..U+9FFF), lower() and string comparison are computed rather than *)
(* assumed.  Confidence values are held in thousandths (0.9 is 900).       *)
(***************************************************************************)
EXTENDS Integers, Sequences, FiniteSets, TLC

(* ------------------------------------------------------------------ *)
(* Characters                                                          *)
(* ------------------------------------------------------------------ *)

IsAlpha(c) == (c >= 65 /\ c <= 90) \/ (c >= 97 /\ c <= 122)

IsLowerAlpha(c) == c >= 97 /\ c <= 122

\* \d of the regular expressions; the inputs hold ASCII digits only
IsDigit(c) == c >= 48 /\ c <= 57

\* \s of the regular expressions and the characters str.strip() removes
IsSpace(c) ==
  \/ (c >= 9 /\ c <= 13)
  \/ (c >= 28 /\ c <= 32)
  \/ c \in {133, 160, 5760, 8232, 8233, 8239, 8287, 12288}
  \/ (c >= 8192 /\ c <= 8202)

IsCJK(c) == c >= 19968 /\ c <= 40959

LowerChar(c) == IF c >= 65 /\ c <= 90 THEN c + 32 ELSE c

(* ------------------------------------------------------------------ *)
(* String helpers (the str methods the code uses)                      *)
(* ------------------------------------------------------------------ *)

Lower(s) == [i \in 1..Len(s) |-> LowerChar(s[i])]

Contains(s, c) == \E i \in 1..Len(s) : s[i] = c

Count(s, c) == Cardinality({i \in 1..Len(s) : s[i] = c})

HasCJK(s) == \E i \in 1..Len(s) : IsCJK(s[i])

\* sub occurs in s at position i
MatchAt(s, i, sub) ==
  /\ i >= 1
  /\ i + Len(sub) - 1 <= Len(s)
  /\ \A k \in 1..Len(sub) : s[i + k - 1] = sub[k]

HasSub(s, sub) == \E i \in 1..Len(s) : MatchAt(s, i, sub)

\* position of the first occurrence of sub in s, 0 when there is none
FindSub(s, sub) ==
  IF HasSub(s, sub)
  THEN CHOOSE i \in 1..Len(s) :
         MatchAt(s, i, sub) /\ \A j \in 1..(i - 1) : ~MatchAt(s, j, sub)
  ELSE 0

\* position of the last occurrence of sub in s, 0 when there is none
FindLastSub(s, sub) ==
  IF HasSub(s, sub)
  THEN CHOOSE i \in 1..Len(s) :
         MatchAt(s, i, sub) /\ \A j \in (i + 1)..Len(s) : ~MatchAt(s, j, sub)
  ELSE 0

Prefix(s, n) == IF Len(s) <= n THEN s ELSE SubSeq(s, 1, n)

From(s, i) == SubSeq(s, i, Len(s))

RECURSIVE LStripSet(_, _)
LStripSet(s, cs) ==
  IF s # <<>> /\ s[1] \in cs THEN LStripSet(Tail(s), cs) ELSE s

RECURSIVE RStripSet(_, _)
RStripSet(s, cs) ==
  IF s # <<>> /\ s[Len(s)] \in cs
  THEN RStripSet(SubSeq(s, 1, Len(s) - 1), cs) ELSE s

\* s.strip(chars)
StripSet(s, cs) == RStripSet(LStripSet(s, cs), cs)

RECURSIVE LStrip(_)
LStrip(s) == IF s # <<>> /\ IsSpace(s[1]) THEN LStrip(Tail(s)) ELSE s

RECURSIVE RStrip(_)
RStrip(s) ==
  IF s # <<>> /\ IsSpace(s[Len(s)])
  THEN RStrip(SubSeq(s, 1, Len(s) - 1)) ELSE s

\* s.strip()
Strip(s) == RStrip(LStrip(s))

\* s.replace(a, b) for a one-character a
RECURSIVE ReplaceChar(_, _, _)
ReplaceChar(s, a, b) ==
  IF s = <<>> THEN <<>>
  ELSE (IF s[1] = a THEN b ELSE <<s[1]>>) \o ReplaceChar(Tail(s), a, b)

\* s.replace(a, b) for any non-empty a: leftmost, non-overlapping occurrences
RECURSIVE ReplaceSub(_, _, _)
ReplaceSub(s, a, b) ==
  IF s = <<>> THEN <<>>
  ELSE IF MatchAt(s, 1, a) THEN b \o ReplaceSub(From(s, Len(a) + 1), a, b)
  ELSE <<s[1]>> \o ReplaceSub(Tail(s), a, b)

\* sep.join(parts)
RECURSIVE Join(_, _)
Join(parts, sep) ==
  IF parts = <<>> THEN <<>>
  ELSE IF Len(parts) = 1 THEN parts[1]
  ELSE parts[1] \o sep \o Join(Tail(parts), sep)

\* length of the maximal run of letters that starts at position i
RECURSIVE AlphaRun(_, _)
AlphaRun(s, i) ==
  IF i >= 1 /\ i <= Len(s) /\ IsAlpha(s[i]) THEN 1 + AlphaRun(s, i + 1) ELSE 0

\* length of the maximal run of whitespace that starts at position i
RECURSIVE SpaceRun(_, _)
SpaceRun(s, i) ==
  IF i >= 1 /\ i <= Len(s) /\ IsSpace(s[i]) THEN 1 + SpaceRun(s, i + 1) ELSE 0

\* length of the maximal run of digits that starts at position i
RECURSIVE DigitRun(_, _)
DigitRun(s, i) ==
  IF i >= 1 /\ i <= Len(s) /\ IsDigit(s[i]) THEN 1 + DigitRun(s, i + 1) ELSE 0

\* a < b in Python's string order (lexicographic by code point)
RECURSIVE StrLess(_, _)
StrLess(a, b) ==
  IF b = <<>> THEN FALSE
  ELSE IF a = <<>> THEN TRUE
  ELSE IF a[1] # b[1] THEN a[1] < b[1]
  ELSE StrLess(Tail(a), Tail(b))

(* ------------------------------------------------------------------ *)
(* Line normalizer                                                     *)
(* ------------------------------------------------------------------ *)

\* REPLACE_MAP: full-width punctuation to ASCII, form feed to a space
ReplaceMapChar(c) ==
  CASE c = 65288 -> 40
    [] c = 65289 -> 41
    [] c = 65292 -> 44
    [] c = 65307 -> 59
    [] c = 65306 -> 58
    [] c = 8220 -> 34
    [] c = 8221 -> 34
    [] c = 12290 -> 46
    [] c = 12288 -> 32
    [] c = 8212 -> 45
    [] c = 8213 -> 45
    [] c = 65293 -> 45
    [] c = 12 -> 32
    [] OTHER -> c

normalize_text(s) == [i \in 1..Len(s) |-> ReplaceMapChar(s[i])]

\* the positions where \s{8,} matches
WideGaps(s) == { i \in 1..Len(s) : SpaceRun(s, i) >= 8 }

\* re.split(r"\s{8,}", line)
RECURSIVE SplitWide(_)
SplitWide(s) ==
  IF WideGaps(s) = {} THEN <<s>>
  ELSE LET g == CHOOSE x \in WideGaps(s) : \A y \in WideGaps(s) : x <= y
       IN <<SubSeq(s, 1, g - 1)>> \o SplitWide(From(s, g + SpaceRun(s, g)))

RECURSIVE StripNonEmpty(_)
StripNonEmpty(parts) ==
  IF parts = <<>> THEN <<>>
  ELSE LET p == Strip(parts[1])
       IN (IF p = <<>> THEN <<>> ELSE <<p>>) \o StripNonEmpty(Tail(parts))

split_multicolumn_line(line) == StripNonEmpty(SplitWide(line))

\* re.sub(r"\s+", " ", line)
RECURSIVE CollapseSpace(_, _)
CollapseSpace(s, i) ==
  IF i > Len(s) THEN <<>>
  ELSE IF IsSpace(s[i]) THEN <<32>> \o CollapseSpace(s, i + SpaceRun(s, i))
  ELSE <<s[i]>> \o CollapseSpace(s, i + 1)

clean_line(line) ==
  LET a == Strip(CollapseSpace(normalize_text(line), 1))
      b == ReplaceSub(a, <<32, 46>>, <<46>>)
      c == ReplaceSub(b, <<32, 44>>, <<44>>)
  IN ReplaceSub(c, <<32, 59>>, <<59>>)

\* NOISE_PATTERNS: a lone number, the document title, a "part N" banner
NoiseTitle == <<33521, 35821, 35789, 26681, 35789, 32512, 35760, 24518, 22823, 20840>>

NoiseParts ==
  { <<31532, 19968, 37096, 20998>>,
    <<31532, 20108, 37096, 20998>>,
    <<31532, 19977, 37096, 20998>> }

is_noise(line) ==
  LET t == Strip(line)
      l == LStrip(line)
  IN \/ t = <<>>
     \/ \A i \in 1..Len(t) : IsDigit(t[i])
     \/ t = NoiseTitle
     \/ \E p \in NoiseParts : MatchAt(l, 1, p)

\* the cleaned, noise-free fragments of one raw line (build_entries' first loop)
RECURSIVE CleanParts(_)
CleanParts(parts) ==
  IF parts = <<>> THEN <<>>
  ELSE LET line == clean_line(parts[1])
       IN (IF is_noise(line) THEN <<>> ELSE <<line>>) \o CleanParts(Tail(parts))

NormalizeRaw(raw) == CleanParts(split_multicolumn_line(raw))

paren_balance(text) == Count(text, 40) - Count(text, 41)

\* the length below which an all-Latin buffer swallows the next fragment
ShortBuf == 20


\* MergeCond with <= for <: a buffer of exactly ShortBuf characters merges
MergeCondOffByOne(b, bal) == bal > 0 \/ (Len(b) <= ShortBuf /\ ~HasCJK(b))

\* the merge condition of merge_broken_lines
MergeCond(b, bal) == bal > 0 \/ (Len(b) < ShortBuf /\ ~HasCJK(b))

\* one iteration of merge_broken_lines' loop over a fragment: m is the
\* record [buf, balance, merged] of its locals
MergeStep(m, line) ==
  IF line = <<>> THEN m
  ELSE IF m.buf = <<>>
  THEN [m EXCEPT !.buf = line, !.balance = paren_balance(line)]
  ELSE IF MergeCond(m.buf, m.balance)
  THEN [m EXCEPT !.buf = m.buf \o <<32>> \o line,
                 !.balance = m.balance + paren_balance(line)]
  ELSE [buf |-> line, balance |-> paren_balance(line),
        merged |-> Append(m.merged, Strip(m.buf))]

\* the flush after the loop
MergeFlush(m) ==
  IF m.buf # <<>> THEN Append(m.merged, Strip(m.buf)) ELSE m.merged

(* ------------------------------------------------------------------ *)
(* Example parser                                                      *)
(* ------------------------------------------------------------------ *)

\* index of the first ")" after position i, 0 when there is none
NextClose(s, i) ==
  IF \E j \in (i + 1)..Len(s) : s[j] = 41
  THEN CHOOSE j \in (i + 1)..Len(s) :
         s[j] = 41 /\ \A k \in (i + 1)..(j - 1) : s[k] # 41
  ELSE 0

\* re.search(r"\(([^)]{1,180})\)", rest): the positions where it matches
ParenStarts(rest) ==
  { i \in 1..Len(rest) :
      /\ rest[i] = 40
      /\ NextClose(rest, i) - i - 1 >= 1
      /\ NextClose(rest, i) - i - 1 <= 180 }

\* group 1 of the leftmost match, <<>> when no match
ParenGroup(rest) ==
  IF ParenStarts(rest) = {} THEN <<>>
  ELSE LET i == CHOOSE x \in ParenStarts(rest) :
                  \A y \in ParenStarts(rest) : x <= y
       IN SubSeq(rest, i + 1, NextClose(rest, i) - 1)

\* re.sub(r"\([^)]*\)", "", rest)
RECURSIVE RemoveParens(_, _)
RemoveParens(s, i) ==
  IF i > Len(s) THEN <<>>
  ELSE IF s[i] = 40 /\ NextClose(s, i) > 0
  THEN RemoveParens(s, NextClose(s, i) + 1)
  ELSE <<s[i]>> \o RemoveParens(s, i + 1)

\* length of the run of [A-Za-z\-'] that starts at position i
RECURSIVE WordRun(_, _)
WordRun(s, i) ==
  IF i <= Len(s) /\ (IsAlpha(s[i]) \/ s[i] = 45 \/ s[i] = 39)
  THEN 1 + WordRun(s, i + 1) ELSE 0

\* length of group 1 of EXAMPLE_HEAD_RE, 0 when the line does not match
ExampleHeadLen(line) ==
  IF line # <<>> /\ IsAlpha(line[1]) /\ WordRun(line, 2) >= 1
  THEN 1 + (IF WordRun(line, 2) > 30 THEN 30 ELSE WordRun(line, 2))
  ELSE 0

\* s[:220].rstrip() + "..." when s is longer than 220
Truncate220(s) ==
  IF Len(s) > 220 THEN RStrip(SubSeq(s, 1, 220)) \o <<46, 46, 46>> ELSE s

\* d.split(sep)[-1].strip()
AfterLast(d, sep) == Strip(From(d, FindLastSub(d, sep) + Len(sep)))

NoExample ==
  [ok |-> FALSE, word |-> <<>>, decomposition |-> <<>>,
   explanationZh |-> <<>>, rawLine |-> <<>>]

\* the explanation of parse_example_line before truncation
ExplanationOf(rest, decomposition) ==
  LET e0 == StripSet(RemoveParens(rest, 1), {32, 46, 59, 58})
      e1 == IF e0 = <<>> /\ decomposition # <<>> /\ HasSub(decomposition, <<45, 62>>)
            THEN AfterLast(decomposition, <<45, 62>>) ELSE e0
  IN IF e1 = <<>> /\ decomposition # <<>> /\ HasSub(decomposition, <<8594>>)
     THEN AfterLast(decomposition, <<8594>>) ELSE e1

parse_example_line(line) ==
  IF Len(line) > 1200 \/ ExampleHeadLen(line) = 0 THEN NoExample
  ELSE LET n == ExampleHeadLen(line)
           word == Lower(SubSeq(line, 1, n))
           rest == Strip(From(line, n + 1))
           decomposition == Strip(ParenGroup(rest))
           explanation == ExplanationOf(rest, decomposition)
       IN IF rest = <<>> \/ ~HasCJK(rest) THEN NoExample
          ELSE IF Len(StripSet(RemoveParens(rest, 1), {32, 46, 59, 58})) > 3000
          THEN NoExample
          ELSE IF Len(word) < 2 \/ Len(explanation) < 1 THEN NoExample
          ELSE [ok |-> TRUE,
                word |-> word,
                decomposition |->
                  Truncate220(Strip(ReplaceSub(
                    ReplaceSub(decomposition, <<43>>, <<32, 43, 32>>),
                    <<32, 32>>, <<32>>))),
                explanationZh |-> Truncate220(explanation),
                rawLine |-> line]

\* the example as it is stored (the dict parse_example_line returns)
ExampleRec(p) ==
  [word |-> p.word, decomposition |-> p.decomposition,
   explanationZh |-> p.explanationZh, rawLine |-> p.rawLine]

\* re.sub(r"[^a-z\-]", "", first)
RECURSIVE KeepLowerHyphen(_)
KeepLowerHyphen(s) ==
  IF s = <<>> THEN <<>>
  ELSE (IF IsLowerAlpha(s[1]) \/ s[1] = 45 THEN <<s[1]>> ELSE <<>>)
       \o KeepLowerHyphen(Tail(s))

\* derive_root_from_example; <<>> stands for None
derive_root_from_example(example) ==
  LET decomp == example.decomposition
  IN IF decomp = <<>> \/ ~Contains(decomp, 43) THEN <<>>
     ELSE LET first == KeepLowerHyphen(Lower(Strip(
                         SubSeq(decomp, 1, FindSub(decomp, <<43>>) - 1))))
          IN IF first = <<>> THEN <<>>
             ELSE IF first[Len(first)] # 45 /\ first[1] # 45
             THEN Append(first, 45)
             ELSE first

(* ------------------------------------------------------------------ *)
(* Heading / token parser                                              *)
(* ------------------------------------------------------------------ *)

\* group 2 of ROOT_HEADING_RE.match(line), <<>> when the line does not match
HeadingBody(line) ==
  LET a == SpaceRun(line, 1) + 1
      d == DigitRun(line, a)
      sep == a + d
  IN IF d >= 1 /\ sep <= Len(line) /\ line[sep] \in {12289, 46}
        /\ sep < Len(line)
     THEN LET rest == From(line, sep + 1)
          IN IF LStrip(rest) = <<>> THEN <<rest[Len(rest)]>> ELSE LStrip(rest)
     ELSE <<>>

\* re.sub(r"\[[^\]]*\]", " ", text)
RECURSIVE BlankBrackets(_, _)
BlankBrackets(s, i) ==
  IF i > Len(s) THEN <<>>
  ELSE IF s[i] = 91 /\ \E j \in (i + 1)..Len(s) : s[j] = 93
  THEN <<32>> \o BlankBrackets(s,
         1 + CHOOSE j \in (i + 1)..Len(s) :
               s[j] = 93 /\ \A k \in (i + 1)..(j - 1) : s[k] # 93)
  ELSE <<s[i]>> \o BlankBrackets(s, i + 1)

\* length of the run of [A-Za-z ,/] that starts at position i
RECURSIVE XrefRun(_, _)
XrefRun(s, i) ==
  IF i <= Len(s) /\ (IsAlpha(s[i]) \/ s[i] \in {32, 44, 47})
  THEN 1 + XrefRun(s, i + 1) ELSE 0

\* re.sub(r"=[A-Za-z ,/]+", " ", text)
RECURSIVE BlankXrefs(_, _)
BlankXrefs(s, i) ==
  IF i > Len(s) THEN <<>>
  ELSE IF s[i] = 61 /\ XrefRun(s, i + 1) >= 1
  THEN <<32>> \o BlankXrefs(s, i + 1 + XrefRun(s, i + 1))
  ELSE <<s[i]>> \o BlankXrefs(s, i + 1)

\* the separators parse_root_tokens turns into spaces
SeparatorsToSpace(s) ==
  [i \in 1..Len(s) |-> IF s[i] \in {12289, 47, 65292, 44} THEN 32 ELSE s[i]]

\* length of the match of token_re at position i, 0 when it does not match
TokenLenAt(t, i) ==
  LET prevOK == i = 1 \/ ~IsAlpha(t[i - 1])
      L == AlphaRun(t, i)
      M == AlphaRun(t, i + L + 1)
  IN IF ~prevOK THEN 0
     ELSE IF t[i] = 45 /\ AlphaRun(t, i + 1) >= 1 /\ AlphaRun(t, i + 1) <= 12
     THEN 1 + AlphaRun(t, i + 1)
     ELSE IF L >= 1 /\ L <= 12 /\ i + L <= Len(t) /\ t[i + L] = 45
             /\ AlphaRun(t, i + L + 1) = 0
     THEN L + 1
     ELSE IF L >= 1 /\ L <= 12 /\ i + L <= Len(t) /\ t[i + L] = 40
             /\ M >= 1 /\ M <= 3
             /\ i + L + 1 + M <= Len(t) /\ t[i + L + 1 + M] = 41
             /\ AlphaRun(t, i + L + M + 2) = 0
     THEN L + M + 2
     ELSE IF L >= 2 /\ L <= 12 THEN L
     ELSE 0

\* token_re.finditer(text)
RECURSIVE RawTokens(_, _)
RawTokens(t, i) ==
  IF i > Len(t) THEN <<>>
  ELSE IF TokenLenAt(t, i) > 0
  THEN <<SubSeq(t, i, i + TokenLenAt(t, i) - 1)>>
       \o RawTokens(t, i + TokenLenAt(t, i))
  ELSE RawTokens(t, i + 1)

\* the tokens parse_root_tokens never accepts: ability, able, ably, year
StopTokens ==
  { <<97, 98, 105, 108, 105, 116, 121>>, <<97, 98, 108, 101>>,
    <<97, 98, 108, 121>>, <<121, 101, 97, 114>> }

\* re.search(r"[CJK]-[A-Za-z]", raw)
CJKHyphenLetter(raw) ==
  \E i \in 1..(Len(raw) - 2) :
    IsCJK(raw[i]) /\ raw[i + 1] = 45 /\ IsAlpha(raw[i + 2])

\* "jia zai" (added before) or "qian zhui" (prefix) occurs in raw
PrefixCue(raw) ==
  HasSub(raw, <<21152, 22312>>) \/ HasSub(raw, <<21069, 32512>>)

RECURSIVE DropParens(_)
DropParens(s) ==
  IF s = <<>> THEN <<>>
  ELSE (IF s[1] \in {40, 41} THEN <<>> ELSE <<s[1]>>) \o DropParens(Tail(s))

\* one raw token to its candidate, <<>> when the token is dropped
Candidate(tok, raw) ==
  LET a == Lower(DropParens(tok))
      b == IF a[1] = 45 /\ CJKHyphenLetter(raw) THEN Tail(a) ELSE a
  IN IF a \in StopTokens THEN <<>>
     ELSE IF b # <<>> /\ (b[1] = 45 \/ b[Len(b)] = 45) THEN b
     ELSE IF Len(b) <= 4 /\ PrefixCue(raw) THEN Append(b, 45)
     ELSE b

RECURSIVE Candidates(_, _)
Candidates(toks, raw) ==
  IF toks = <<>> THEN <<>>
  ELSE LET c == Candidate(toks[1], raw)
       IN (IF c = <<>> THEN <<>> ELSE <<c>>) \o Candidates(Tail(toks), raw)

\* the order-preserving de-duplication that ends parse_root_tokens
RECURSIVE Uniq(_, _)
Uniq(cands, seen) ==
  IF cands = <<>> THEN <<>>
  ELSE IF cands[1] \in seen THEN Uniq(Tail(cands), seen)
  ELSE <<cands[1]>> \o Uniq(Tail(cands), seen \cup {cands[1]})

parse_root_tokens(raw) ==
  LET text == SeparatorsToSpace(BlankXrefs(BlankBrackets(raw, 1), 1))
  IN Uniq(Candidates(RawTokens(text, 1), raw), {})

\* "biao shi" (denotes), the marker extract_meaning_from_heading looks for
Denotes == <<34920, 31034>>

\* re.search(r'biaoshi\s*"([^"]+)"', line): the positions where it matches
QuotedStarts(line) ==
  { i \in 1..Len(line) :
      /\ MatchAt(line, i, Denotes)
      /\ LET q == i + 2 + SpaceRun(line, i + 2)
         IN /\ q <= Len(line)
            /\ line[q] = 34
            /\ \E r \in (q + 2)..Len(line) :
                 line[r] = 34 /\ \A k \in (q + 1)..(r - 1) : line[k] # 34 }

extract_meaning_from_heading(line) ==
  IF QuotedStarts(line) # {}
  THEN LET i == CHOOSE x \in QuotedStarts(line) :
                  \A y \in QuotedStarts(line) : x <= y
           q == i + 2 + SpaceRun(line, i + 2)
           r == CHOOSE x \in (q + 2)..Len(line) :
                  line[x] = 34 /\ \A k \in (q + 1)..(x - 1) : line[k] # 34
       IN Strip(SubSeq(line, q + 1, r - 1))
  ELSE IF HasSub(line, Denotes)
  THEN Strip(Prefix(StripSet(From(line, FindSub(line, Denotes) + 2), {32, 58}), 120))
  ELSE <<>>

(* ------------------------------------------------------------------ *)
(* Entry type, identifier, tags                                        *)
(* ------------------------------------------------------------------ *)

\* infer_type with the two tests in the other order
infer_type_trailing_first(root) ==
  IF root # <<>> /\ root[Len(root)] = 45 THEN "prefix"
  ELSE IF root # <<>> /\ root[1] = 45 THEN "suffix"
  ELSE "root"

infer_type(root) ==
  IF root # <<>> /\ root[1] = 45 THEN "suffix"
  ELSE IF root # <<>> /\ root[Len(root)] = 45 THEN "prefix"
  ELSE "root"

\* the characters of a type name
TypeChars(t) ==
  CASE t = "prefix" -> <<112, 114, 101, 102, 105, 120>>
    [] t = "suffix" -> <<115, 117, 102, 102, 105, 120>>
    [] t = "root" -> <<114, 111, 111, 116>>

\* re.sub(r"[^a-z0-9]+", "-", s)
RECURSIVE DashRuns(_, _)
DashRuns(s, inRun) ==
  IF s = <<>> THEN <<>>
  ELSE IF IsLowerAlpha(s[1]) \/ IsDigit(s[1])
  THEN <<s[1]>> \o DashRuns(Tail(s), FALSE)
  ELSE (IF inRun THEN <<>> ELSE <<45>>) \o DashRuns(Tail(s), TRUE)

stable_id(entry_type, root) ==
  LET core == StripSet(DashRuns(Lower(root), FALSE), {45})
  IN TypeChars(entry_type) \o <<45>> \o (IF core = <<>> THEN <<120>> ELSE core)

\* pick_tags: the labels are named negation, position, togetherness here
pick_tags(meaning) ==
  (IF \E c \in {19981, 26080, 38750} : Contains(meaning, c)
   THEN <<"negation">> ELSE <<>>)
  \o (IF \E c \in {21069, 21518, 26049} : Contains(meaning, c)
      THEN <<"position">> ELSE <<>>)
  \o (IF HasSub(meaning, <<20849, 21516>>) \/ HasSub(meaning, <<19968, 36215>>)
      THEN <<"togetherness">> ELSE <<>>)

(* ------------------------------------------------------------------ *)
(* Entry aggregator: one line of build_entries' forward pass           *)
(* ------------------------------------------------------------------ *)
(* entries_by_root and derived_examples are insertion-ordered dicts:   *)
(* sequences of records, in insertion order, keyed by id and by root.  *)

\* index of the entry whose key is eid, 0 when eid is not in the dict
IndexOfId(es, eid) ==
  IF \E k \in 1..Len(es) : es[k].id = eid
  THEN CHOOSE k \in 1..Len(es) : es[k].id = eid
  ELSE 0

HasId(es, eid) == IndexOfId(es, eid) # 0

\* entries_by_root[eid] = e
PutEntry(es, eid, e) ==
  IF HasId(es, eid) THEN [es EXCEPT ![IndexOfId(es, eid)] = e]
  ELSE Append(es, e)

\* "(" in line and ")" not in line and len(line) < 80
IsBrokenHeading(line) ==
  Contains(line, 40) /\ ~Contains(line, 41) /\ Len(line) < 80

\* the section banners: common prefixes, common suffixes, root
IsSectionLine(line) ==
  /\ \/ HasSub(line, <<24120, 29992, 21069, 32512>>)
     \/ HasSub(line, <<24120, 29992, 21518, 32512>>)
     \/ HasSub(line, <<35789, 26681>>)
  /\ Len(line) <= 120

\* group 2 of the heading match that survives the example guard, else <<>>
AcceptedHeadingBody(line) ==
  LET body == HeadingBody(line)
  IN IF body # <<>> /\ ~parse_example_line(body).ok THEN body ELSE <<>>


\* OtherRoots without the filter: the aliases are all the heading's tokens
OtherRootsAll(roots, root) == roots

\* r for r in roots if r != root
RECURSIVE OtherRoots(_, _)
OtherRoots(roots, root) ==
  IF roots = <<>> THEN <<>>
  ELSE (IF roots[1] # root THEN <<roots[1]>> ELSE <<>>)
       \o OtherRoots(Tail(roots), root)

\* the entry a heading creates
HeadingEntry(root, roots, meaning, section) ==
  [id |-> stable_id(infer_type(root), root),
   type |-> infer_type(root),
   root |-> root,
   meaningZh |-> meaning,
   section |-> Prefix(section, 120),
   aliases |-> OtherRoots(roots, root),
   examples |-> <<>>,
   tags |-> pick_tags(meaning),
   confidence |-> IF meaning # <<>> THEN 900 ELSE 750]


\* HeadingRoot without the test "not entries_by_root[eid]['meaningZh']": a
\* heading with a meaning overwrites the meaning of an entry it names
HeadingRootOverwrites(es, root, roots, meaning, section) ==
  LET eid == stable_id(infer_type(root), root)
  IN IF ~HasId(es, eid)
     THEN PutEntry(es, eid, HeadingEntry(root, roots, meaning, section))
     ELSE IF meaning # <<>>
     THEN [es EXCEPT ![IndexOfId(es, eid)].meaningZh = meaning]
     ELSE es

\* the body of "for idx, root in enumerate(roots)" for one root
HeadingRoot(es, root, roots, meaning, section) ==
  LET eid == stable_id(infer_type(root), root)
  IN IF ~HasId(es, eid)
     THEN PutEntry(es, eid, HeadingEntry(root, roots, meaning, section))
     ELSE IF meaning # <<>> /\ es[IndexOfId(es, eid)].meaningZh = <<>>
     THEN [es EXCEPT ![IndexOfId(es, eid)].meaningZh = meaning]
     ELSE es

RECURSIVE HeadingRoots(_, _, _, _, _)
HeadingRoots(es, k, roots, meaning, section) ==
  IF k > Len(roots) THEN es
  ELSE HeadingRoots(HeadingRoot(es, roots[k], roots, meaning, section),
                    k + 1, roots, meaning, section)

\* the entry an example creates for a target root that has none
ExampleEntry(root, section) ==
  [id |-> stable_id(infer_type(root), root),
   type |-> infer_type(root),
   root |-> root,
   meaningZh |-> <<>>,
   section |-> Prefix(section, 120),
   aliases |-> <<>>,
   examples |-> <<>>,
   tags |-> <<>>,
   confidence |-> 650]

\* len(decomposition) + len(explanationZh)
Score(ex) == Len(ex.decomposition) + Len(ex.explanationZh)


\* Longer with >= for >: an equally long example replaces the stored one
LongerOrEqual(new, prev) == Score(new) >= Score(prev)

\* new_score > prev_score
Longer(new, prev) == Score(new) > Score(prev)


\* MergeExample without the look-up of the word: every example is appended
MergeExampleAppend(examples, example) == Append(examples, example)

\* the merge of one example into an entry's examples list
MergeExample(examples, example) ==
  LET same == {k \in 1..Len(examples) : examples[k].word = example.word}
  IN IF same = {} THEN Append(examples, example)
     ELSE LET prev == examples[CHOOSE k \in same : \A j \in same : j <= k]
              first == CHOOSE k \in same : \A j \in same : k <= j
          IN IF Longer(example, prev)
             THEN [examples EXCEPT ![first] = example]
             ELSE examples


\* AttachExample without the test "eid not in entries_by_root": every
\* example line makes a new entry
AttachExampleAlwaysCreate(es, root, example, section) ==
  Append(es, [ExampleEntry(root, section) EXCEPT !.examples = <<example>>])

\* the body of "for root in target_roots" for one root
AttachExample(es, root, example, section) ==
  LET eid == stable_id(infer_type(root), root)
      es1 == IF ~HasId(es, eid)
             THEN PutEntry(es, eid, ExampleEntry(root, section)) ELSE es
      k == IndexOfId(es1, eid)
  IN [es1 EXCEPT ![k].examples = MergeExample(es1[k].examples, example)]

RECURSIVE AttachAll(_, _, _, _, _)
AttachAll(es, k, targets, example, section) ==
  IF k > Len(targets) THEN es
  ELSE AttachAll(AttachExample(es, targets[k], example, section),
                 k + 1, targets, example, section)

\* SideAppend that assigns where it should append:
\* derived_examples[root] = [example]
SideAppendAssign(de, root, example) ==
  IF \E k \in 1..Len(de) : de[k].root = root
  THEN LET k == CHOOSE j \in 1..Len(de) : de[j].root = root
       IN [de EXCEPT ![k].examples = <<example>>]
  ELSE Append(de, [root |-> root, examples |-> <<example>>])

\* derived_examples[root].append(example)
SideAppend(de, root, example) ==
  IF \E k \in 1..Len(de) : de[k].root = root
  THEN LET k == CHOOSE j \in 1..Len(de) : de[j].root = root
       IN [de EXCEPT ![k].examples = Append(de[k].examples, example)]
  ELSE Append(de, [root |-> root, examples |-> <<example>>])


\* TargetRoots without the fallback to the inferred root
TargetRootsHeadingOnly(roots, derived_root) == roots

\* target_roots of an example line
TargetRoots(roots, derived_root) ==
  IF roots # <<>> THEN roots
  ELSE IF derived_root # <<>> THEN <<derived_root>>
  ELSE <<>>


\* ExampleLine whose target_roots is current_roots itself and not a copy
\* (target_roots = current_roots for current_roots[:]): the fallback to the
\* inferred root is then written into current_roots
ExampleLineAliased(a, line) ==
  LET p == parse_example_line(line)
      example == ExampleRec(p)
      derived_root == derive_root_from_example(example)
  IN IF ~p.ok THEN a
     ELSE [a EXCEPT
             !.derived_examples =
               IF derived_root # <<>>
               THEN SideAppend(a.derived_examples, derived_root, example)
               ELSE a.derived_examples,
             !.current_roots = TargetRoots(a.current_roots, derived_root),
             !.entries_by_root =
               AttachAll(a.entries_by_root, 1,
                         TargetRoots(a.current_roots, derived_root),
                         example, a.current_section)]

\* the part of the loop body after the heading branch: a is the record
\* [entries_by_root, current_section, current_roots, derived_examples]
ExampleLine(a, line) ==
  LET p == parse_example_line(line)
      example == ExampleRec(p)
      derived_root == derive_root_from_example(example)
  IN IF ~p.ok THEN a
     ELSE [a EXCEPT
             !.derived_examples =
               IF derived_root # <<>>
               THEN SideAppend(a.derived_examples, derived_root, example)
               ELSE a.derived_examples,
             !.entries_by_root =
               AttachAll(a.entries_by_root, 1,
                         TargetRoots(a.current_roots, derived_root),
                         example, a.current_section)]

\* the heading branch, taken when the heading yields at least one token
HeadingLine(a, body) ==
  [a EXCEPT
     !.current_roots = parse_root_tokens(body),
     !.entries_by_root =
       HeadingRoots(a.entries_by_root, 1, parse_root_tokens(body),
                    extract_meaning_from_heading(body), a.current_section)]

\* the branch of the loop body a line takes: "broken" (skipped as a broken
\* heading), "heading" (an accepted heading with at least one token),
\* "example" (parsed as an example) or "none"
LineKind(line) ==
  IF IsBrokenHeading(line) THEN "broken"
  ELSE IF AcceptedHeadingBody(line) # <<>>
          /\ parse_root_tokens(AcceptedHeadingBody(line)) # <<>>
  THEN "heading"
  ELSE IF parse_example_line(line).ok THEN "example"
  ELSE "none"

\* ForwardLine that assigns current_roots before the test "if roots": a
\* heading without tokens empties it
ForwardLineResets(a, line) ==
  IF LineKind(line) = "broken" THEN a
  ELSE LET a1 == IF IsSectionLine(line)
                 THEN [a EXCEPT !.current_section = line] ELSE a
       IN IF LineKind(line) = "heading"
          THEN HeadingLine(a1, AcceptedHeadingBody(line))
          ELSE IF AcceptedHeadingBody(line) # <<>>
          THEN ExampleLine([a1 EXCEPT !.current_roots = <<>>], line)
          ELSE ExampleLine(a1, line)

\* one iteration of "for line in lines"
ForwardLine(a, line) ==
  IF LineKind(line) = "broken" THEN a
  ELSE LET a1 == IF IsSectionLine(line)
                 THEN [a EXCEPT !.current_section = line] ELSE a
       IN IF LineKind(line) = "heading"
          THEN HeadingLine(a1, AcceptedHeadingBody(line))
          ELSE ExampleLine(a1, line)

\* what one line routes: for each target root of an example line, the
\* entry id, the target root, the example, and whether the target is the
\* inferred root (no heading is active)
RECURSIVE RoutePairs(_, _, _, _)
RoutePairs(k, targets, example, inferred) ==
  IF k > Len(targets) THEN <<>>
  ELSE <<[id |-> stable_id(infer_type(targets[k]), targets[k]),
          root |-> targets[k], example |-> example,
          inferred |-> inferred]>>
       \o RoutePairs(k + 1, targets, example, inferred)

RoutedBy(a, line) ==
  IF LineKind(line) # "example" THEN <<>>
  ELSE LET example == ExampleRec(parse_example_line(line))
       IN RoutePairs(1, TargetRoots(a.current_roots,
                                    derive_root_from_example(example)),
                     example, a.current_roots = <<>>)

(* ------------------------------------------------------------------ *)
(* Recovery pass, sort and confidence scorer                           *)
(* ------------------------------------------------------------------ *)

\* IsPlainPrefix without the limit of ten letters: re.match(r"^[a-z]+-$", root)
IsPlainPrefixAnyLength(root) ==
  /\ Len(root) >= 2
  /\ root[Len(root)] = 45
  /\ \A k \in 1..(Len(root) - 1) : IsLowerAlpha(root[k])

\* re.match(r"^[a-z]{1,10}-$", root)
IsPlainPrefix(root) ==
  /\ Len(root) >= 2 /\ Len(root) <= 11
  /\ root[Len(root)] = 45
  /\ \A k \in 1..(Len(root) - 1) : IsLowerAlpha(root[k])

\* by_word: one example per word, in first-seen order
RECURSIVE ByWord(_, _)
ByWord(acc, ex_list) ==
  IF ex_list = <<>> THEN acc
  ELSE LET ex == ex_list[1]
           same == {k \in 1..Len(acc) : acc[k].word = ex.word}
       IN ByWord(
            IF same = {} THEN Append(acc, ex)
            ELSE LET k == CHOOSE j \in same : TRUE
                 IN IF Longer(ex, acc[k]) THEN [acc EXCEPT ![k] = ex] ELSE acc,
            Tail(ex_list))

\* list.sort(key=word): a stable insertion sort
RECURSIVE InsertByWord(_, _)
InsertByWord(sorted, ex) ==
  IF sorted = <<>> THEN <<ex>>
  ELSE IF StrLess(ex.word, sorted[1].word) THEN <<ex>> \o sorted
  ELSE <<sorted[1]>> \o InsertByWord(Tail(sorted), ex)

RECURSIVE SortByWord(_, _)
SortByWord(acc, exs) ==
  IF exs = <<>> THEN acc
  ELSE SortByWord(InsertByWord(acc, exs[1]), Tail(exs))

\* up to two distinct non-empty explanations, in list order
RECURSIVE FirstMeanings(_, _)
FirstMeanings(meanings, exs) ==
  IF exs = <<>> THEN meanings
  ELSE LET m == Strip(exs[1].explanationZh)
           ms == IF m # <<>> /\ \A k \in 1..Len(meanings) : meanings[k] # m
                 THEN Append(meanings, m) ELSE meanings
       IN IF Len(ms) >= 2 THEN ms ELSE FirstMeanings(ms, Tail(exs))

\* "zi dong ju he yi xiang: " (auto-aggregated senses)
AutoMarker == <<33258, 21160, 32858, 21512, 20041, 39033, 58, 32>>

\* "li ci yi xiang: " (senses from the examples)
DerivedMarker == <<20363, 35789, 20041, 39033, 58, 32>>

\* marker + "；".join(meanings) if meanings else ""
MeaningFrom(marker, meanings) ==
  IF meanings # <<>> THEN marker \o Join(meanings, <<65307>>) ELSE <<>>

\* the entry the recovery pass builds for a side-table root
RecoveredEntry(root, ex_list, section) ==
  LET uniq_ex == SortByWord(<<>>, ByWord(<<>>, ex_list))
  IN [id |-> stable_id(infer_type(root), root),
      type |-> infer_type(root),
      root |-> root,
      meaningZh |-> MeaningFrom(AutoMarker, FirstMeanings(<<>>, uniq_ex)),
      section |-> Prefix(section, 120),
      aliases |-> <<>>,
      examples |-> uniq_ex,
      tags |-> <<>>,
      confidence |-> 720]

\* whether the recovery pass promotes the side-table item
Promotes(es, item) ==
  /\ Len(item.examples) >= 4
  /\ IsPlainPrefix(item.root)
  /\ ~HasId(es, stable_id(infer_type(item.root), item.root))

\* one iteration of "for root, ex_list in derived_examples.items()"
RecoverRoot(es, item, section) ==
  IF Promotes(es, item)
  THEN PutEntry(es, stable_id(infer_type(item.root), item.root),
                RecoveredEntry(item.root, item.examples, section))
  ELSE es

\* x precedes y in the order of the key (type, root)
EntryLess(x, y) ==
  \/ StrLess(TypeChars(x.type), TypeChars(y.type))
  \/ x.type = y.type /\ StrLess(x.root, y.root)

RECURSIVE InsertEntry(_, _)
InsertEntry(sorted, e) ==
  IF sorted = <<>> THEN <<e>>
  ELSE IF EntryLess(e, sorted[1]) THEN <<e>> \o sorted
  ELSE <<sorted[1]>> \o InsertEntry(Tail(sorted), e)

\* entries.sort(key=lambda x: (x["type"], x["root"])), stable
RECURSIVE SortEntries(_, _)
SortEntries(acc, es) ==
  IF es = <<>> THEN acc
  ELSE SortEntries(InsertEntry(acc, es[1]), Tail(es))

Max(x, y) == IF x >= y THEN x ELSE y

Min(x, y) == IF x <= y THEN x ELSE y


\* Round2 that rounds to a whole number: round(c) for round(c, 2)
Round2Whole(c) == ((c + 500) \div 1000) * 1000

\* round(c, 2) of a confidence held in thousandths
Round2(c) == ((c + 5) \div 10) * 10


\* ScoredConfidence that assigns the floor of an entry with examples instead
\* of taking the maximum with what the entry has
ScoredConfidenceNoMax(e) ==
  Round2(Min(IF e.examples # <<>> THEN 700 ELSE e.confidence, 990))

\* the confidence the scorer gives an entry whose meaning is settled
ScoredConfidence(e) ==
  LET c == IF e.examples # <<>> /\ e.meaningZh # <<>> THEN Max(e.confidence, 920)
           ELSE IF e.examples # <<>> THEN Max(e.confidence, 700)
           ELSE e.confidence
  IN Round2(Min(c, 990))


\* ScoreEntry without the synthesis of a meaning from the examples
ScoreEntryNoSynthesis(e) == [e EXCEPT !.confidence = ScoredConfidence(e)]

\* one iteration of "for e in entries"
ScoreEntry(e) ==
  LET m == IF e.meaningZh = <<>> /\ e.examples # <<>>
           THEN MeaningFrom(DerivedMarker, FirstMeanings(<<>>, e.examples))
           ELSE e.meaningZh
      e1 == [e EXCEPT !.meaningZh = m]
  IN [e1 EXCEPT !.confidence = ScoredConfidence(e1)]

(* ------------------------------------------------------------------ *)
(* Inputs                                                              *)
(* ------------------------------------------------------------------ *)

\* the longest input text, in raw lines
MaxRaw == 3

\* the longest fragment list handed to merge_broken_lines on its own
MaxFrags == 4

\* 1<U+3001>anti- biaoshi"fandui"de yisi: a numbered heading for anti-
\* whose meaning ("against") is quoted
RawAntiHeading ==
  <<49, 12289, 97, 110, 116, 105, 45, 32, 34920, 31034, 34, 21453, 23545,
    34, 30340, 24847, 24605>>

\* antibody (anti+body) fanti
RawAntibody ==
  <<97, 110, 116, 105, 98, 111, 100, 121, 32, 40, 97, 110, 116, 105, 43,
    98, 111, 100, 121, 41, 32, 21453, 20307>>

\* 2<U+3001>-ion, port biaoshi<U+201C>wu<U+201D>: a heading of a suffix and a
\* root, meaning "without", in typographic quotes
RawMixedHeading ==
  <<50, 12289, 45, 105, 111, 110, 44, 32, 112, 111, 114, 116, 32, 34920,
    31034, 8220, 26080, 8221>>

\* biology (bio+logy) shengwu
RawBiology ==
  <<98, 105, 111, 108, 111, 103, 121, 32, 40, 98, 105, 111, 43, 108, 111,
    103, 121, 41, 32, 29983, 29289>>

\* four columns, each biology (bio+logy) and a gloss: shengwu, shengwuxue,
\* shengmingxue, shengwu (lengths 2, 3, 3, 2)
RawBioColumns ==
  <<98, 105, 111, 108, 111, 103, 121, 32, 40, 98, 105, 111, 43, 108, 111,
    103, 121, 41, 32, 29983, 29289, 32, 32, 32, 32, 32, 32, 32, 32, 98,
    105, 111, 108, 111, 103, 121, 32, 40, 98, 105, 111, 43, 108, 111, 103,
    121, 41, 32, 29983, 29289, 23398, 32, 32, 32, 32, 32, 32, 32, 32, 98,
    105, 111, 108, 111, 103, 121, 32, 40, 98, 105, 111, 43, 108, 111, 103,
    121, 41, 32, 29983, 21629, 23398, 32, 32, 32, 32, 32, 32, 32, 32, 98,
    105, 111, 108, 111, 103, 121, 32, 40, 98, 105, 111, 43, 108, 111, 103,
    121, 41, 32, 29983, 29289>>

\* four columns, each antibody (anti+body) fanti
RawAntiColumns ==
  <<97, 110, 116, 105, 98, 111, 100, 121, 32, 40, 97, 110, 116, 105, 43,
    98, 111, 100, 121, 41, 32, 21453, 20307, 32, 32, 32, 32, 32, 32, 32,
    32, 97, 110, 116, 105, 98, 111, 100, 121, 32, 40, 97, 110, 116, 105,
    43, 98, 111, 100, 121, 41, 32, 21453, 20307, 32, 32, 32, 32, 32, 32,
    32, 32, 97, 110, 116, 105, 98, 111, 100, 121, 32, 40, 97, 110, 116,
    105, 43, 98, 111, 100, 121, 41, 32, 21453, 20307, 32, 32, 32, 32, 32,
    32, 32, 32, 97, 110, 116, 105, 98, 111, 100, 121, 32, 40, 97, 110, 116,
    105, 43, 98, 111, 100, 121, 41, 32, 21453, 20307>>

\* ab (-a-+b) zhong: a decomposition whose first part has both hyphens
RawBothHyphens ==
  <<97, 98, 32, 40, 45, 97, 45, 43, 98, 41, 32, 20013>>

RawCatalogue ==
  { RawAntiHeading, RawAntibody, RawMixedHeading, RawBiology,
    RawBioColumns, RawAntiColumns, RawBothHyphens }

\* 3<U+3001>-ion, bio- zhong: a heading of a suffix and a prefix that gives
\* no meaning (it has no "biaoshi")
RawBareHeading ==
  <<51, 12289, 45, 105, 111, 110, 44, 32, 98, 105, 111, 45, 32, 20013>>

\* 4<U+3001>-ion biaoshi"qian": a heading of the suffix -ion, meaning "front"
\* (a position keyword of pick_tags)
RawFrontHeading ==
  <<52, 12289, 45, 105, 111, 110, 32, 34920, 31034, 34, 21069, 34>>

\* 5<U+3001>cigen ("roots"): a section banner, numbered, with no root token
RawBanner ==
  <<53, 12289, 35789, 26681>>

\* ab (zhong: a fragment whose parenthesis never closes
RawOpenParen ==
  <<97, 98, 32, 40, 20013>>

\* 1<U+3001>antibody (anti+body) fanti: a numbered example line
RawNumberedExample ==
  <<49, 12289, 97, 110, 116, 105, 98, 111, 100, 121, 32, 40, 97, 110, 116,
    105, 43, 98, 111, 100, 121, 41, 32, 21453, 20307>>

\* four columns: by (bio+y) zhong, ba (bio+a) zhong, by (bio+y) zhongzhong,
\* bc (bio+c) zhong: three words of the root bio-, out of order, one twice
RawBioWords ==
  <<98, 121, 32, 40, 98, 105, 111, 43, 121, 41, 32, 20013, 32, 32, 32, 32,
    32, 32, 32, 32, 98, 97, 32, 40, 98, 105, 111, 43, 97, 41, 32, 20013,
    32, 32, 32, 32, 32, 32, 32, 32, 98, 121, 32, 40, 98, 105, 111, 43, 121,
    41, 32, 20013, 20013, 32, 32, 32, 32, 32, 32, 32, 32, 98, 99, 32, 40,
    98, 105, 111, 43, 99, 41, 32, 20013>>

\* texts of headings of every kind, a banner, an unclosed fragment, a
\* numbered example and a line of examples
HeadingCatalogue ==
  { RawMixedHeading, RawBareHeading, RawFrontHeading, RawBanner,
    RawOpenParen, RawBioWords, RawNumberedExample }

\* ab zhong: an example without a decomposition
RawPlainExample ==
  <<97, 98, 32, 20013>>

\* four columns, each ab (abcdefghijk+b) zhong: the first part of the
\* decomposition has 11 letters
RawLongColumns ==
  <<97, 98, 32, 40, 97, 98, 99, 100, 101, 102, 103, 104, 105, 106, 107, 43,
    98, 41, 32, 20013, 32, 32, 32, 32, 32, 32, 32, 32, 32, 32, 97, 98, 32,
    40, 97, 98, 99, 100, 101, 102, 103, 104, 105, 106, 107, 43, 98, 41, 32,
    20013, 32, 32, 32, 32, 32, 32, 32, 32, 32, 32, 97, 98, 32, 40, 97, 98,
    99, 100, 101, 102, 103, 104, 105, 106, 107, 43, 98, 41, 32, 20013, 32,
    32, 32, 32, 32, 32, 32, 32, 32, 32, 97, 98, 32, 40, 97, 98, 99, 100,
    101, 102, 103, 104, 105, 106, 107, 43, 98, 41, 32, 20013>>

\* ab (-a+b) zhong: a decomposition whose first part has a leading hyphen
RawSuffixA ==
  <<97, 98, 32, 40, 45, 97, 43, 98, 41, 32, 20013>>

\* texts of examples whose inferred roots recur, collide or are too long
RootCatalogue ==
  { RawMixedHeading, RawBiology, RawBioWords, RawLongColumns, RawSuffixA,
    RawBothHyphens, RawPlainExample }

\* biography
FragWord ==
  <<98, 105, 111, 103, 114, 97, 112, 104, 121>>

\* shengwu (bio+: a gloss and an unclosed parenthesis
FragOpen ==
  <<29983, 29289, 32, 40, 98, 105, 111, 43>>

\* graphy)
FragClose ==
  <<103, 114, 97, 112, 104, 121, 41>>

\* zhuanji (two CJK characters)
FragGloss ==
  <<20256, 35760>>

\* ab
FragShort ==
  <<97, 98>>

FragCatalogue == { FragWord, FragOpen, FragClose, FragGloss, FragShort }

\* the sequences over S of length at most n
SeqsUpTo(S, n) == UNION { [1..k -> S] : k \in 0..n }

(* ------------------------------------------------------------------ *)
(* State                                                               *)
(* ------------------------------------------------------------------ *)

VARIABLES
  raw_lines,         \* raw_text.splitlines()
  pc,                \* the loop build_entries is in
  i,                 \* the index of the next item of that loop
  lines,             \* the cleaned fragments, then the merged logical lines
  buf,               \* merge_broken_lines: the buffer
  balance,           \* merge_broken_lines: its parenthesis balance
  merged,            \* merge_broken_lines: the logical lines flushed so far
  entries_by_root,   \* the entry map, in insertion order
  current_section,
  current_roots,
  derived_examples,  \* the side table: inferred root -> examples
  pending,           \* the recovery loop's iterator: the items still to visit
  entries,           \* the sorted list the scorer walks and returns
  routed,            \* history: what the forward pass routed to which entry
  twin               \* a second run of build_entries on the same raw_lines

vars ==
  <<raw_lines, pc, i, lines, buf, balance, merged, entries_by_root,
    current_section, current_roots, derived_examples, pending, entries,
    routed, twin>>

\* the state of the run as one record
Run ==
  [pc |-> pc, i |-> i, lines |-> lines,
   buf |-> buf, balance |-> balance, merged |-> merged,
   entries_by_root |-> entries_by_root,
   current_section |-> current_section,
   current_roots |-> current_roots,
   derived_examples |-> derived_examples,
   pending |-> pending,
   entries |-> entries,
   routed |-> routed]

\* the run moves to the state n
SetRun(n) ==
  /\ pc' = n.pc
  /\ i' = n.i
  /\ lines' = n.lines
  /\ buf' = n.buf
  /\ balance' = n.balance
  /\ merged' = n.merged
  /\ entries_by_root' = n.entries_by_root
  /\ current_section' = n.current_section
  /\ current_roots' = n.current_roots
  /\ derived_examples' = n.derived_examples
  /\ pending' = n.pending
  /\ entries' = n.entries
  /\ routed' = n.routed

\* the run is in the state n
AtRun(n) ==
  /\ pc = n.pc
  /\ i = n.i
  /\ lines = n.lines
  /\ buf = n.buf
  /\ balance = n.balance
  /\ merged = n.merged
  /\ entries_by_root = n.entries_by_root
  /\ current_section = n.current_section
  /\ current_roots = n.current_roots
  /\ derived_examples = n.derived_examples
  /\ pending = n.pending
  /\ entries = n.entries
  /\ routed = n.routed

\* the state a run starts in, at the loop p over the list ls
StartRun(p, ls) ==
  [pc |-> p, i |-> 1, lines |-> ls,
   buf |-> <<>>, balance |-> 0, merged |-> <<>>,
   entries_by_root |-> <<>>,
   current_section |-> <<>>,
   current_roots |-> <<>>,
   derived_examples |-> <<>>,
   pending |-> <<>>,
   entries |-> <<>>,
   routed |-> <<>>]

(* ------------------------------------------------------------------ *)
(* Steps of build_entries: each gives the states a run r may move to   *)
(* ------------------------------------------------------------------ *)

\* the aggregator's part of a run
AggOf(r) ==
  [entries_by_root |-> r.entries_by_root,
   current_section |-> r.current_section,
   current_roots |-> r.current_roots,
   derived_examples |-> r.derived_examples]

\* the locals of merge_broken_lines
MergeOf(r) == [buf |-> r.buf, balance |-> r.balance, merged |-> r.merged]


\* DictItems of a container without an order of its own (a set of roots):
\* any order
DictItemsAnyOrder(d) ==
  { [k \in 1..Len(d) |-> d[f[k]]] : f \in Permutations(1..Len(d)) }

\* the orders in which "for k, v in d.items()" may visit a dict: insertion
\* order, and no other
DictItems(d) == {d}

\* one raw line: split into columns, clean, drop noise
NormalizeRun(r, raw) ==
  IF r.pc = "normalize" /\ r.i <= Len(raw)
  THEN {[r EXCEPT !.lines = r.lines \o NormalizeRaw(raw[r.i]), !.i = r.i + 1]}
  ELSE {}

\* the call of merge_broken_lines
StartMergeRun(r, raw) ==
  IF r.pc = "normalize" /\ r.i > Len(raw)
  THEN {[r EXCEPT !.pc = "merge", !.i = 1,
                  !.buf = <<>>, !.balance = 0, !.merged = <<>>]}
  ELSE {}

\* one fragment of merge_broken_lines' loop
MergeLineRun(r) ==
  IF r.pc = "merge" /\ r.i <= Len(r.lines)
  THEN LET m == MergeStep(MergeOf(r), r.lines[r.i])
       IN {[r EXCEPT !.buf = m.buf, !.balance = m.balance,
                     !.merged = m.merged, !.i = r.i + 1]}
  ELSE {}

\* the final flush and the return of merge_broken_lines
MergeFinishRun(r) ==
  IF r.pc = "merge" /\ r.i > Len(r.lines)
  THEN {[r EXCEPT !.lines = MergeFlush(MergeOf(r)),
                  !.merged = MergeFlush(MergeOf(r)),
                  !.pc = "forward", !.i = 1]}
  ELSE {}

\* one logical line of the forward pass
ForwardRun(r) ==
  IF r.pc = "forward" /\ r.i <= Len(r.lines)
  THEN LET a == ForwardLine(AggOf(r), r.lines[r.i])
       IN {[r EXCEPT !.entries_by_root = a.entries_by_root,
                     !.current_section = a.current_section,
                     !.current_roots = a.current_roots,
                     !.derived_examples = a.derived_examples,
                     !.routed = r.routed \o RoutedBy(AggOf(r), r.lines[r.i]),
                     !.i = r.i + 1]}
  ELSE {}

\* the recovery loop starts to iterate over derived_examples.items()
StartRecoveryRun(r) ==
  IF r.pc = "forward" /\ r.i > Len(r.lines)
  THEN {[r EXCEPT !.pc = "recovery", !.i = 1, !.pending = items] :
          items \in DictItems(r.derived_examples)}
  ELSE {}

\* one side-table root of the recovery pass
RecoverRun(r) ==
  IF r.pc = "recovery" /\ r.pending # <<>>
  THEN {[r EXCEPT !.entries_by_root =
                    RecoverRoot(r.entries_by_root, Head(r.pending),
                                r.current_section),
                  !.pending = Tail(r.pending),
                  !.i = r.i + 1]}
  ELSE {}

\* entries = list(entries_by_root.values()); entries.sort(...)
SortRun(r) ==
  IF r.pc = "recovery" /\ r.pending = <<>>
  THEN {[r EXCEPT !.entries = SortEntries(<<>>, r.entries_by_root),
                  !.pc = "score", !.i = 1]}
  ELSE {}

\* one entry of the scorer's loop; the list and the map hold the same entry
ScoreRun(r) ==
  IF r.pc = "score" /\ r.i <= Len(r.entries)
  THEN {[r EXCEPT !.entries[r.i] = ScoreEntry(r.entries[r.i]),
                  !.entries_by_root =
                    PutEntry(r.entries_by_root, r.entries[r.i].id,
                             ScoreEntry(r.entries[r.i])),
                  !.i = r.i + 1]}
  ELSE {}

\* return entries, meta
FinishRun(r) ==
  IF r.pc = "score" /\ r.i > Len(r.entries)
  THEN {[r EXCEPT !.pc = "done"]}
  ELSE {}

\* meta["exampleCount"]
RECURSIVE ExampleCount(_)
ExampleCount(es) ==
  IF es = <<>> THEN 0 ELSE Len(es[1].examples) + ExampleCount(Tail(es))

(* ------------------------------------------------------------------ *)
(* One run of build_entries                                            *)
(* ------------------------------------------------------------------ *)

\* the run takes one of the steps ns
Single(ns) == \E n \in ns : SetRun(n) /\ UNCHANGED <<raw_lines, twin>>

Init ==
  /\ raw_lines \in SeqsUpTo(RawCatalogue, MaxRaw)
  /\ AtRun(StartRun("normalize", <<>>))
  /\ twin = StartRun("normalize", <<>>)

Normalize == Single(NormalizeRun(Run, raw_lines))

StartMerge == Single(StartMergeRun(Run, raw_lines))

MergeLine == Single(MergeLineRun(Run))

MergeFinish == Single(MergeFinishRun(Run))

Forward == Single(ForwardRun(Run))

StartRecovery == Single(StartRecoveryRun(Run))

Recover == Single(RecoverRun(Run))

Sort == Single(SortRun(Run))

ScoreStep == Single(ScoreRun(Run))

Finish == Single(FinishRun(Run))

Next ==
  \/ Normalize
  \/ StartMerge
  \/ MergeLine
  \/ MergeFinish
  \/ Forward
  \/ StartRecovery
  \/ Recover
  \/ Sort
  \/ ScoreStep
  \/ Finish

Spec == Init /\ [][Next]_vars

(* ------------------------------------------------------------------ *)
(* merge_broken_lines on its own, over every short list of fragments   *)
(* ------------------------------------------------------------------ *)

InitMerge ==
  /\ raw_lines = <<>>
  /\ \E ls \in SeqsUpTo(FragCatalogue, MaxFrags) : AtRun(StartRun("merge", ls))
  /\ twin = StartRun("merge", <<>>)

NextMerge == MergeLine \/ MergeFinish

SpecMerge == InitMerge /\ [][NextMerge]_vars

(* ------------------------------------------------------------------ *)
(* Two runs on the same input, stepped side by side                    *)
(* ------------------------------------------------------------------ *)

\* both runs take a step of the same loop
Pair(ns, ts) ==
  \E n \in ns : \E t \in ts : SetRun(n) /\ twin' = t /\ UNCHANGED raw_lines

NextTwin ==
  \/ Pair(NormalizeRun(Run, raw_lines), NormalizeRun(twin, raw_lines))
  \/ Pair(StartMergeRun(Run, raw_lines), StartMergeRun(twin, raw_lines))
  \/ Pair(MergeLineRun(Run), MergeLineRun(twin))
  \/ Pair(MergeFinishRun(Run), MergeFinishRun(twin))
  \/ Pair(ForwardRun(Run), ForwardRun(twin))
  \/ Pair(StartRecoveryRun(Run), StartRecoveryRun(twin))
  \/ Pair(RecoverRun(Run), RecoverRun(twin))
  \/ Pair(SortRun(Run), SortRun(twin))
  \/ Pair(ScoreRun(Run), ScoreRun(twin))
  \/ Pair(FinishRun(Run), FinishRun(twin))

SpecTwin == Init /\ [][NextTwin]_vars

(* ------------------------------------------------------------------ *)
(* build_entries over the other catalogues of texts                    *)
(* ------------------------------------------------------------------ *)

InitHeadings ==
  /\ raw_lines \in SeqsUpTo(HeadingCatalogue, MaxRaw)
  /\ AtRun(StartRun("normalize", <<>>))
  /\ twin = StartRun("normalize", <<>>)

SpecHeadings == InitHeadings /\ [][Next]_vars

InitRoots ==
  /\ raw_lines \in SeqsUpTo(RootCatalogue, MaxRaw)
  /\ AtRun(StartRun("normalize", <<>>))
  /\ twin = StartRun("normalize", <<>>)

SpecRoots == InitRoots /\ [][Next]_vars

(* ------------------------------------------------------------------ *)
(* Properties                                                          *)
(* ------------------------------------------------------------------ *)

\* every entry the run holds, in the map or in the sorted list
EntrySet ==
  {entries_by_root[k] : k \in 1..Len(entries_by_root)}
  \cup {entries[k] : k \in 1..Len(entries)}

\* the examples the forward pass routed to the entry eid, in order
RECURSIVE RoutedOf(_, _)
RoutedOf(pairs, eid) ==
  IF pairs = <<>> THEN <<>>
  ELSE (IF pairs[1].id = eid THEN <<pairs[1].example>> ELSE <<>>)
       \o RoutedOf(Tail(pairs), eid)

RoutedTo(eid) == RoutedOf(routed, eid)

\* the examples the side table holds for a root
SideExamples(root) ==
  IF \E k \in 1..Len(derived_examples) : derived_examples[k].root = root
  THEN derived_examples[CHOOSE k \in 1..Len(derived_examples) :
                          derived_examples[k].root = root].examples
  ELSE <<>>

\* anti-
AntiRoot == <<97, 110, 116, 105, 45>>

\* bio-
BioRoot == <<98, 105, 111, 45>>

\* antibody
AntibodyWord == <<97, 110, 116, 105, 98, 111, 100, 121>>

\* C1: on the two-line input "1<U+3001>anti- biaoshi"fandui"de yisi",
\* "antibody (anti+body) fanti", build_entries returns exactly one entry: a
\* prefix with root anti-, a meaning that contains fandui (the heading's
\* quoted meaning), and the single example antibody / "anti + body" / fanti.
C1_AntiHeadingScenario ==
  (pc = "done" /\ raw_lines = <<RawAntiHeading, RawAntibody>>) =>
    /\ Len(entries) = 1
    /\ entries[1].type = "prefix"
    /\ entries[1].root = AntiRoot
    /\ HasSub(entries[1].meaningZh, <<21453, 23545>>)
    /\ Len(entries[1].examples) = 1
    /\ entries[1].examples[1].word = AntibodyWord
    /\ entries[1].examples[1].decomposition =
         <<97, 110, 116, 105, 32, 43, 32, 98, 111, 100, 121>>
    /\ entries[1].examples[1].explanationZh = <<21453, 20307>>

\* C2: in every state of the forward pass, of the recovery pass and of the
\* scorer, and in the returned list, no entry's examples hold two examples
\* with the same word.
C2_NoDuplicateWords ==
  \A e \in EntrySet :
    \A a, b \in 1..Len(e.examples) :
      e.examples[a].word = e.examples[b].word => a = b

\* a returned entry holds one example although the lines gave its root the
\* same word more than once
C2_Witness ==
  /\ pc = "done"
  /\ \E e \in EntrySet :
       /\ Len(e.examples) = 1
       /\ Len(SideExamples(e.root)) >= 2
       /\ \A k \in 1..Len(SideExamples(e.root)) :
            SideExamples(e.root)[k].word = e.examples[1].word

\* the first example of xs for the word w among those of the greatest
\* combined length
BestFirst(xs, w) ==
  LET ws == {k \in 1..Len(xs) : xs[k].word = w}
      best == {k \in ws : \A j \in ws : Score(xs[j]) <= Score(xs[k])}
  IN xs[CHOOSE k \in best : \A j \in best : k <= j]

\* the examples that were offered to an entry: those the forward pass routed
\* to it or, for an entry the recovery pass built, its root's side-table list
OfferedTo(e) ==
  IF RoutedTo(e.id) # <<>> THEN RoutedTo(e.id)
  ELSE IF e.examples # <<>> THEN SideExamples(e.root)
  ELSE <<>>

\* the stored example of each word is the longest one offered, and the first
\* of the longest
LongestFirstKept ==
  \A e \in EntrySet :
    /\ \A k \in 1..Len(e.examples) :
         /\ \E j \in 1..Len(OfferedTo(e)) :
              OfferedTo(e)[j].word = e.examples[k].word
         /\ e.examples[k] = BestFirst(OfferedTo(e), e.examples[k].word)
    /\ \A j \in 1..Len(OfferedTo(e)) :
         \E k \in 1..Len(e.examples) :
           e.examples[k].word = OfferedTo(e)[j].word

\* a forward step replaces a stored example exactly when the line's example
\* has the same word, is routed to the entry and is strictly longer
ReplacedIffLonger ==
  (pc = "forward" /\ i <= Len(lines)) =>
    \A k \in 1..Len(entries_by_root) :
      \A j \in 1..Len(entries_by_root[k].examples) :
        LET old == entries_by_root[k].examples[j]
            new == entries_by_root'[k].examples[j]
            offered == RoutedOf(RoutedBy(AggOf(Run), lines[i]),
                                entries_by_root[k].id)
        IN IF offered # <<>> /\ offered[1].word = old.word
              /\ Score(offered[1]) > Score(old)
           THEN new = offered[1]
           ELSE new = old

\* C3: an example routed to an entry that already holds one for the same word
\* replaces it iff its len(decomposition)+len(explanationZh) is strictly
\* greater; so the stored example of a word is always the longest one offered
\* for that word and, among equally long ones, the first seen.
C3_MergeMonotone == []LongestFirstKept /\ [][ReplacedIffLonger]_vars

\* an entry keeps the first of two different, equally long examples of a word
\* and had a shorter one before
C3_Witness ==
  \E e \in EntrySet :
    \E a, b, c \in 1..Len(OfferedTo(e)) :
      /\ a < b /\ b < c
      /\ OfferedTo(e)[a].word = OfferedTo(e)[b].word
      /\ OfferedTo(e)[b].word = OfferedTo(e)[c].word
      /\ Score(OfferedTo(e)[a]) < Score(OfferedTo(e)[b])
      /\ Score(OfferedTo(e)[b]) = Score(OfferedTo(e)[c])
      /\ OfferedTo(e)[b] # OfferedTo(e)[c]
      /\ Len(e.examples) = 1
      /\ e.examples[1] = OfferedTo(e)[b]

HasLeadingHyphen(root) == root # <<>> /\ root[1] = 45

HasTrailingHyphen(root) == root # <<>> /\ root[Len(root)] = 45

\* C4 as claimed: every entry's type is prefix, suffix or root; a root with
\* a leading "-" has type suffix, a root with a trailing "-" has type prefix,
\* a root with neither has type root.
C4_TypeMatchesMarker ==
  \A e \in EntrySet :
    /\ e.type \in {"prefix", "suffix", "root"}
    /\ HasLeadingHyphen(e.root) => e.type = "suffix"
    /\ HasTrailingHyphen(e.root) => e.type = "prefix"
    /\ (~HasLeadingHyphen(e.root) /\ ~HasTrailingHyphen(e.root))
         => e.type = "root"

\* C4 as amended: every entry's type is prefix, suffix or root; a root with
\* a leading "-" has type suffix (also when it has a trailing "-" too), a
\* root with a trailing "-" and no leading "-" has type prefix, a root with
\* neither has type root.
C4_TypeMatchesMarkerLeadingFirst ==
  \A e \in EntrySet :
    /\ e.type \in {"prefix", "suffix", "root"}
    /\ HasLeadingHyphen(e.root) => e.type = "suffix"
    /\ (HasTrailingHyphen(e.root) /\ ~HasLeadingHyphen(e.root))
         => e.type = "prefix"
    /\ (~HasLeadingHyphen(e.root) /\ ~HasTrailingHyphen(e.root))
         => e.type = "root"

\* an entry whose root has both hyphens (the inferred root -a-), and entries
\* of the other two types
C4_Witness ==
  /\ \E e \in EntrySet :
       HasLeadingHyphen(e.root) /\ HasTrailingHyphen(e.root)
       /\ Len(e.root) >= 2 /\ e.type = "suffix"
  /\ \E e \in EntrySet : e.type = "root"
  /\ \E e \in EntrySet : e.type = "prefix"

\* the confidence of the entry eid in a list of entries, 0 when it has none
ConfidenceIn(es, eid) ==
  IF HasId(es, eid) THEN es[IndexOfId(es, eid)].confidence ELSE 0

\* C5: from its creation in the forward pass or the recovery pass to the end
\* of the scorer, every step leaves an entry's confidence at least what it
\* was: confidence never decreases.
C5_ConfidenceNeverDecreases ==
  [][/\ \A k \in 1..Len(entries_by_root) :
          ConfidenceIn(entries_by_root', entries_by_root[k].id)
            >= entries_by_root[k].confidence
     /\ \A k \in 1..Len(entries) :
          ConfidenceIn(entries', entries[k].id) >= entries[k].confidence
     /\ \A k \in 1..Len(entries') :
          entries'[k].confidence
            >= ConfidenceIn(entries_by_root, entries'[k].id)]_vars

\* the scorer has raised an entry the recovery pass created and an entry a
\* heading created
C5_Witness ==
  /\ pc = "done"
  /\ \E e \in EntrySet :
       e.confidence = 920 /\ MatchAt(e.meaningZh, 1, AutoMarker)
  /\ \E e \in EntrySet : e.confidence = 920 /\ e.aliases # <<>>


\* no two entries of es share an id
IdsUnique(es) ==
  \A a, b \in 1..Len(es) : es[a].id = es[b].id => a = b

\* the ids of es
IdSet(es) == {es[k].id : k \in 1..Len(es)}

\* a step keeps every entry of the map under its key, adds entries only
\* under ids the map did not hold, and the sorted list holds the map's ids
EntriesKept ==
  /\ Len(entries_by_root') >= Len(entries_by_root)
  /\ \A k \in 1..Len(entries_by_root) :
       /\ entries_by_root'[k].id = entries_by_root[k].id
       /\ entries_by_root'[k].root = entries_by_root[k].root
       /\ entries_by_root'[k].type = entries_by_root[k].type
  /\ \A k \in (Len(entries_by_root) + 1)..Len(entries_by_root') :
       entries_by_root'[k].id \notin IdSet(entries_by_root)
  /\ entries' # <<>> =>
       /\ Len(entries') = Len(entries_by_root')
       /\ IdSet(entries') = IdSet(entries_by_root')

\* C6: in every state, and in the returned list, no two entries share an id:
\* an entry is created only under an id the entry map does not hold (heading
\* branch, example branch, recovery pass), and no step removes an entry or
\* changes its key.
C6_UniqueIds ==
  /\ [](IdsUnique(entries_by_root) /\ IdsUnique(entries))
  /\ [][EntriesKept]_vars

\* the run returned several entries, one of which was offered examples more
\* than once by the forward pass and was in the map when the recovery pass
\* came to its root with four examples
C6_Witness ==
  /\ pc = "done"
  /\ Len(entries) >= 2
  /\ \E e \in EntrySet :
       Len(RoutedTo(e.id)) >= 2 /\ Len(SideExamples(e.root)) >= 4

\* no entry's aliases hold its own root
NoSelfAlias ==
  \A e \in EntrySet : \A k \in 1..Len(e.aliases) : e.aliases[k] # e.root

\* xs is the list ys without its element x, which ys holds once
WithoutOne(xs, ys, x) ==
  \E p \in 1..Len(ys) :
    /\ ys[p] = x
    /\ xs = SubSeq(ys, 1, p - 1) \o SubSeq(ys, p + 1, Len(ys))
    /\ \A k \in 1..Len(xs) : xs[k] # x

\* a step leaves the aliases of the entries it finds alone; an entry it makes
\* on a heading line gets the heading's other tokens, any other entry it makes
\* gets none
AliasesSetOnce ==
  /\ \A k \in 1..Len(entries_by_root) :
       k <= Len(entries_by_root') =>
         entries_by_root'[k].aliases = entries_by_root[k].aliases
  /\ \A k \in (Len(entries_by_root) + 1)..Len(entries_by_root') :
       IF pc = "forward" /\ i <= Len(lines)
          /\ LineKind(lines[i]) = "heading"
       THEN WithoutOne(entries_by_root'[k].aliases, current_roots',
                       entries_by_root'[k].root)
       ELSE entries_by_root'[k].aliases = <<>>
  /\ \A k \in 1..Len(entries') :
       \E j \in 1..Len(entries_by_root') :
         /\ entries_by_root'[j].id = entries'[k].id
         /\ entries_by_root'[j].aliases = entries'[k].aliases

\* C7: in every state no entry's aliases contain the entry's own root: an
\* entry a heading created has exactly the heading's other (distinct) tokens,
\* an entry an example or the recovery pass created has no aliases, and no
\* step changes the aliases of an entry afterwards.
C7_AliasesExcludeRoot == []NoSelfAlias /\ [][AliasesSetOnce]_vars

\* the run returned an entry a heading created with an alias, and an entry
\* the recovery pass created
C7_Witness ==
  /\ pc = "done"
  /\ \E e \in EntrySet : e.aliases # <<>> /\ e.examples # <<>>
  /\ \E e \in EntrySet :
       /\ e.aliases = <<>>
       /\ RoutedTo(e.id) = <<>>
       /\ Len(SideExamples(e.root)) >= 4

\* the entries with root bio- that the run holds
BioEntries == {e \in EntrySet : e.root = BioRoot}

\* C8 as claimed: with no heading parsed (current_roots empty), once at least
\* 4 examples whose decomposition starts with "bio+" have accumulated, the
\* output holds an entry with root bio- that the recovery pass produced (the
\* forward pass routed nothing to it).
C8_BioViaRecovery ==
  (pc = "done" /\ current_roots = <<>> /\ Len(SideExamples(BioRoot)) >= 4) =>
    \E e \in BioEntries : RoutedTo(e.id) = <<>>

\* C8 as amended: with no heading parsed (current_roots empty), as soon as
\* one example whose decomposition starts with "bio+" has been processed the
\* entry map holds an entry with root bio-, made by the forward pass for that
\* example (no count of four is needed), and the output holds it; the
\* recovery pass does not produce it.
C8_BioViaForwardPass ==
  (current_roots = <<>> /\ Len(SideExamples(BioRoot)) >= 1) =>
    /\ \E k \in 1..Len(entries_by_root) :
         /\ entries_by_root[k].root = BioRoot
         /\ RoutedTo(entries_by_root[k].id) # <<>>
         /\ RoutedTo(entries_by_root[k].id)[1] = SideExamples(BioRoot)[1]
    /\ pc = "done" =>
         \E k \in 1..Len(entries) :
           entries[k].root = BioRoot /\ entries[k].examples # <<>>

\* the run ended without a heading, with fewer than four bio+ examples, and
\* returned the entry bio-
C8_Witness ==
  /\ pc = "done"
  /\ current_roots = <<>>
  /\ Len(SideExamples(BioRoot)) \in 1..3
  /\ \E k \in 1..Len(entries) : entries[k].root = BioRoot

\* what merge_broken_lines does with a fragment that meets a buffer
MergeRule ==
  (pc = "merge" /\ i <= Len(lines) /\ buf # <<>>) =>
    IF \/ Count(buf, 40) > Count(buf, 41)
       \/ (Len(buf) < ShortBuf /\ ~HasCJK(buf))
    THEN /\ buf' = buf \o <<32>> \o lines[i]
         /\ merged' = merged
    ELSE /\ merged' = Append(merged, Strip(buf))
         /\ buf' = lines[i]

\* C9: in merge_broken_lines every fragment after the first of a buffer is
\* appended to the buffer iff the buffer has more "(" than ")" or is shorter
\* than 20 characters and has no CJK character; otherwise the buffer is
\* flushed as one logical line and the fragment starts a new buffer. So a
\* fragment that follows a buffer with an open parenthesis is merged into it.
C9_MergeRule == [][MergeRule]_vars

\* a short all-Latin fragment was merged into a buffer that has a CJK
\* character and an open parenthesis
C9_Witness ==
  /\ pc = "merge"
  /\ buf = FragOpen \o <<32>> \o FragShort
  /\ merged # <<>>

\* the ids, example lists and confidences of a list of entries, in order
Outcome(es) ==
  [k \in 1..Len(es) |->
     [id |-> es[k].id, examples |-> es[k].examples,
      confidence |-> es[k].confidence]]

C11_ConfidenceInRange ==
  pc = "done" =>
    \A k \in 1..Len(entries) :
      /\ entries[k].confidence > 0
      /\ entries[k].confidence <= 990
      /\ entries[k].confidence % 10 = 0

\* the returned list holds an entry raised to 0.92 beside entries left at
\* 0.9 and at 0.75
C11_Witness ==
  /\ pc = "done"
  /\ \E k \in 1..Len(entries) :
       entries[k].confidence = 920 /\ entries[k].examples # <<>>
  /\ \E k \in 1..Len(entries) : entries[k].confidence = 900
  /\ \E k \in 1..Len(entries) : entries[k].confidence = 750

\* the examples a side table de holds for a root
SideIn(de, root) ==
  IF \E k \in 1..Len(de) : de[k].root = root
  THEN de[CHOOSE k \in 1..Len(de) : de[k].root = root].examples
  ELSE <<>>

\* a numbered line whose body matches the example pattern
NumberedExample(line) ==
  /\ ~IsBrokenHeading(line)
  /\ HeadingBody(line) # <<>>
  /\ parse_example_line(HeadingBody(line)).ok

\* the forward step on a numbered example line treats the body's example as
\* an example line's
NumberedExampleHandled ==
  (pc = "forward" /\ i <= Len(lines) /\ NumberedExample(lines[i])) =>
    LET ex == ExampleRec(parse_example_line(HeadingBody(lines[i])))
        r == derive_root_from_example(ex)
        targets == IF current_roots # <<>> THEN current_roots
                   ELSE IF r # <<>> THEN <<r>> ELSE <<>>
    IN /\ current_roots' = current_roots
       /\ \A k \in (Len(entries_by_root) + 1)..Len(entries_by_root') :
            entries_by_root'[k].confidence = 650
       /\ r # <<>> =>
            /\ Len(SideIn(derived_examples', r))
                 = Len(SideIn(derived_examples, r)) + 1
            /\ SideIn(derived_examples', r)
                 [Len(SideIn(derived_examples', r))].word = ex.word
       /\ \A t \in 1..Len(targets) :
            \E k \in 1..Len(entries_by_root') :
              /\ entries_by_root'[k].id
                   = stable_id(infer_type(targets[t]), targets[t])
              /\ \E j \in 1..Len(entries_by_root'[k].examples) :
                   entries_by_root'[k].examples[j].word = ex.word

\* C12: a numbered line whose body matches the example pattern is
\* reclassified as an example: it leaves current_roots alone, creates no
\* heading entry, and the example parsed from its body is recorded in the
\* side table under its inferred root and attached to the target roots.
C12_NumberedExampleReclassified == [][NumberedExampleHandled]_vars

\* C13: current_roots changes only on a line accepted as a heading with at
\* least one token, and then becomes exactly that token list; every other
\* line (broken fragment, banner, heading without tokens, numbered example,
\* example, unmatched line) and every other step leaves it unchanged.
C13_CurrentRootsFrame ==
  [][IF /\ pc = "forward" /\ i <= Len(lines)
        /\ ~IsBrokenHeading(lines[i])
        /\ HeadingBody(lines[i]) # <<>>
        /\ ~parse_example_line(HeadingBody(lines[i])).ok
        /\ parse_root_tokens(HeadingBody(lines[i])) # <<>>
     THEN current_roots' = parse_root_tokens(HeadingBody(lines[i]))
     ELSE current_roots' = current_roots]_vars

\* the forward pass took a heading, then an example line and a broken
\* fragment, and current_roots is still the heading's token list
C13_Witness ==
  /\ pc = "forward"
  /\ Len(lines) >= 3
  /\ i = Len(lines) + 1
  /\ LineKind(lines[1]) = "heading"
  /\ LineKind(lines[2]) = "example"
  /\ LineKind(lines[Len(lines)]) = "broken"
  /\ current_roots = parse_root_tokens(HeadingBody(lines[1]))
  /\ Len(current_roots) = 2


\* the entries of es under the id of the root t
EntriesOf(es, t) ==
  {k \in 1..Len(es) : es[k].id = stable_id(infer_type(t), t)}

\* the forward step on a line that parses as an example
ExampleRouted ==
  (/\ pc = "forward" /\ i <= Len(lines)
   /\ ~IsBrokenHeading(lines[i])
   /\ parse_example_line(lines[i]).ok) =>
    LET ex == ExampleRec(parse_example_line(lines[i]))
        r == derive_root_from_example(ex)
        targets == IF current_roots # <<>> THEN current_roots
                   ELSE IF r # <<>> THEN <<r>> ELSE <<>>
    IN /\ IF r # <<>>
          THEN /\ SideIn(derived_examples', r)
                    = Append(SideIn(derived_examples, r), ex)
               /\ \A k \in 1..Len(derived_examples) :
                    derived_examples[k].root # r =>
                      derived_examples'[k] = derived_examples[k]
          ELSE derived_examples' = derived_examples
       /\ targets = <<>> => entries_by_root' = entries_by_root
       /\ \A t \in 1..Len(targets) :
            /\ EntriesOf(entries_by_root', targets[t]) # {}
            /\ \A k \in EntriesOf(entries_by_root', targets[t]) :
                 /\ \E j \in 1..Len(entries_by_root'[k].examples) :
                      entries_by_root'[k].examples[j].word = ex.word
                 /\ EntriesOf(entries_by_root, targets[t]) = {} =>
                      /\ entries_by_root'[k].root = targets[t]
                      /\ entries_by_root'[k].meaningZh = <<>>
                      /\ entries_by_root'[k].confidence = 650
       /\ \A k \in 1..Len(entries_by_root') :
            (\A t \in 1..Len(targets) :
               k \notin EntriesOf(entries_by_root', targets[t])) =>
              /\ k <= Len(entries_by_root)
              /\ entries_by_root'[k] = entries_by_root[k]

\* C14: for each line parsed as an example, the example is appended to the
\* side table under its inferred root whenever it has one, whatever the
\* heading context; the target roots are current_roots if non-empty, else the
\* inferred root alone, else no entry changes; afterwards every target root
\* has an entry (created with confidence 0.65 and no meaning if it was
\* absent) whose examples hold an example for the word.
C14_ExampleRouting == [][ExampleRouted]_vars

\* an example without inferred root met no heading and changed nothing; then
\* a heading came, and an example with an inferred root went to the side
\* table and to both of the heading's entries
C14_Witness ==
  /\ pc = "forward"
  /\ i = 4
  /\ raw_lines = <<RawPlainExample, RawMixedHeading, RawSuffixA>>
  /\ Len(entries_by_root) = 2
  /\ \A k \in 1..Len(entries_by_root) :
       Len(entries_by_root[k].examples) = 1
  /\ Len(derived_examples) = 1


\* lowercase letters followed by one trailing hyphen
LowerThenHyphen(root) ==
  /\ Len(root) >= 2
  /\ root[Len(root)] = 45
  /\ \A k \in 1..(Len(root) - 1) : IsLowerAlpha(root[k])

\* xs holds one example per word of the list offered, the longest and first
\* of each word, in ascending order of the words
DedupedAndSorted(xs, offered) ==
  /\ \A k \in 1..Len(xs) : xs[k] = BestFirst(offered, xs[k].word)
  /\ \A j \in 1..Len(offered) :
       \E k \in 1..Len(xs) : xs[k].word = offered[j].word
  /\ \A k \in 1..(Len(xs) - 1) : StrLess(xs[k].word, xs[k + 1].word)

\* the recovery step on the side-table item at the head of pending: it adds
\* the promoted entry when due is true and changes nothing otherwise
RecoveryStep(due) ==
  LET item == Head(pending)
      n == Len(entries_by_root)
  IN IF due
     THEN /\ Len(entries_by_root') = n + 1
          /\ SubSeq(entries_by_root', 1, n) = entries_by_root
          /\ entries_by_root'[n + 1].root = item.root
          /\ entries_by_root'[n + 1].confidence = 720
          /\ DedupedAndSorted(entries_by_root'[n + 1].examples,
                              item.examples)
     ELSE entries_by_root' = entries_by_root

\* no entry is kept under the id derived from the root
NoEntryFor(root) == EntriesOf(entries_by_root, root) = {}

\* C15 as claimed: the recovery pass promotes a side-table root to a new
\* entry (confidence 0.72, examples deduplicated by word and sorted by word)
\* iff it has at least 4 recorded examples, is lowercase letters followed by
\* one trailing hyphen, and no entry is kept under its derived id; the pass
\* creates no other entry and modifies none.
C15_PromotedIff ==
  [][(pc = "recovery" /\ pending # <<>>) =>
       RecoveryStep(/\ Len(Head(pending).examples) >= 4
                    /\ LowerThenHyphen(Head(pending).root)
                    /\ NoEntryFor(Head(pending).root))]_vars

\* C15 as amended: the recovery pass promotes a side-table root to a new
\* entry (confidence 0.72, examples deduplicated by word and sorted by word)
\* iff it has at least 4 recorded examples, is 1 to 10 lowercase letters
\* followed by one trailing hyphen, and no entry is kept under its derived
\* id; the pass creates no other entry and modifies none.
C15_PromotedIffUpToTenLetters ==
  [][(pc = "recovery" /\ pending # <<>>) =>
       RecoveryStep(/\ Len(Head(pending).examples) >= 4
                    /\ LowerThenHyphen(Head(pending).root)
                    /\ Len(Head(pending).root) <= 11
                    /\ NoEntryFor(Head(pending).root))]_vars

\* the recovery pass is over: it promoted bio- with three words in order,
\* and left alone a root of 11 letters that has four examples
C15_Witness ==
  /\ pc = "score"
  /\ \E k \in 1..Len(entries_by_root) :
       /\ entries_by_root[k].root = BioRoot
       /\ RoutedTo(entries_by_root[k].id) = <<>>
       /\ Len(entries_by_root[k].examples) = 3
  /\ \E k \in 1..Len(derived_examples) :
       /\ Len(derived_examples[k].examples) >= 4
       /\ Len(derived_examples[k].root) = 12
       /\ LowerThenHyphen(derived_examples[k].root)
       /\ NoEntryFor(derived_examples[k].root)


\* the meaning of the entry eid in a list of entries, empty when it has none
MeaningIn(es, eid) ==
  IF HasId(es, eid) THEN es[IndexOfId(es, eid)].meaningZh ELSE <<>>

\* -ion
IonRoot == <<45, 105, 111, 110>>

\* C16: once an entry's meaningZh is non-empty no step changes it: a heading
\* that names an existing entry back-fills its meaning only while it has
\* none, the recovery pass leaves every existing entry as it is, and the
\* scorer synthesizes a meaning only for an entry whose meaning is empty.
C16_MeaningSetOnce ==
  [][/\ \A k \in 1..Len(entries_by_root) :
          /\ entries_by_root[k].meaningZh # <<>> =>
               MeaningIn(entries_by_root', entries_by_root[k].id)
                 = entries_by_root[k].meaningZh
          /\ pc = "recovery" =>
               /\ k <= Len(entries_by_root')
               /\ entries_by_root'[k] = entries_by_root[k]
     /\ \A k \in 1..Len(entries) :
          entries[k].meaningZh # <<>> =>
            MeaningIn(entries', entries[k].id) = entries[k].meaningZh
     /\ \A k \in 1..Len(entries') :
          MeaningIn(entries_by_root, entries'[k].id) # <<>> =>
            entries'[k].meaningZh
              = MeaningIn(entries_by_root, entries'[k].id)]_vars

\* -ion was created without a meaning, a second heading back-filled "wu",
\* a third heading with the meaning "qian" left it; bio- got no meaning
C16_Witness ==
  /\ pc = "done"
  /\ raw_lines = <<RawBareHeading, RawMixedHeading, RawFrontHeading>>
  /\ \E k \in 1..Len(entries) :
       entries[k].root = IonRoot /\ entries[k].meaningZh = <<26080>>
  /\ \E k \in 1..Len(entries) :
       entries[k].root = BioRoot /\ entries[k].meaningZh = <<>>

\* C17: every entry of the returned list has as tags the labels that
\* pick_tags derives from the entry's meaningZh (negation, position,
\* togetherness keywords), also when the meaning was back-filled by a later
\* heading or synthesized by the recovery pass or the scorer.
C17_TagsFollowMeaning ==
  pc = "done" =>
    \A k \in 1..Len(entries) :
      entries[k].tags = pick_tags(entries[k].meaningZh)

\* every example an entry holds has an explanation
ExamplesExplained ==
  \A e \in EntrySet :
    \A k \in 1..Len(e.examples) : Strip(e.examples[k].explanationZh) # <<>>

\* C18: every example stored has a non-empty explanation; so in the returned
\* list every entry with an example has a non-empty meaningZh and confidence
\* exactly 0.92, every entry without examples has confidence 0.75 or 0.90,
\* and no confidence is the scorer's 0.70.
C18_FinalConfidences ==
  /\ ExamplesExplained
  /\ pc = "done" =>
       \A k \in 1..Len(entries) :
         IF entries[k].examples # <<>>
         THEN entries[k].meaningZh # <<>> /\ entries[k].confidence = 920
         ELSE entries[k].confidence \in {750, 900}

\* the returned list holds an entry whose meaning the scorer synthesized
\* from its example, and entries without examples at 0.75 and at 0.9
C18_Witness ==
  /\ pc = "done"
  /\ \E k \in 1..Len(entries) :
       /\ MatchAt(entries[k].meaningZh, 1, DerivedMarker)
       /\ entries[k].confidence = 920
  /\ \E k \in 1..Len(entries) :
       entries[k].examples = <<>> /\ entries[k].confidence = 750
  /\ \E k \in 1..Len(entries) :
       entries[k].examples = <<>> /\ entries[k].confidence = 900


\* the root has examples in the side table, and none of them was recorded
\* while current_roots was empty (no example line took it as its target)
FirstSeenUnderHeading(root) ==
  /\ SideExamples(root) # <<>>
  /\ \A k \in 1..Len(routed) :
       ~(routed[k].inferred /\ routed[k].root = root)

\* a non-empty current_roots stays non-empty, and an example line met with a
\* non-empty current_roots has exactly current_roots as its targets and
\* creates no entry
HeadingContextKept ==
  current_roots # <<>> =>
    /\ current_roots' # <<>>
    /\ (pc = "forward" /\ i <= Len(lines)
        /\ LineKind(lines[i]) = "example") =>
         /\ Len(routed') = Len(routed) + Len(current_roots)
         /\ \A k \in 1..Len(current_roots) :
              routed'[Len(routed) + k].root = current_roots[k]
         /\ Len(entries_by_root') = Len(entries_by_root)

\* every entry the recovery pass creates is for a root whose examples were
\* all recorded under a heading
RecoveredFromHeadedLines ==
  pc = "recovery" =>
    \A k \in (Len(entries_by_root) + 1)..Len(entries_by_root') :
      FirstSeenUnderHeading(entries_by_root'[k].root)

\* the step creates an entry for a root first exemplified under a heading
CreatesHeadedRoot ==
  \E k \in (Len(entries_by_root) + 1)..Len(entries_by_root') :
    FirstSeenUnderHeading(entries_by_root'[k].root)

\* C19 as claimed: once a heading with a token is accepted current_roots is
\* never empty again, and no example line then uses its inferred root as a
\* target; so a root first exemplified after the first heading becomes an
\* entry only through the recovery pass, and every entry the recovery pass
\* creates has all its examples from lines met with current_roots non-empty.
C19_OnlyThroughRecovery ==
  [][/\ HeadingContextKept
     /\ RecoveredFromHeadedLines
     /\ CreatesHeadedRoot => pc = "recovery"]_vars

\* C19 as amended: once a heading with a token is accepted current_roots is
\* never empty again, and no example line then uses its inferred root as a
\* target; so a root first exemplified after the first heading becomes an
\* entry only through a later heading that names it or through the recovery
\* pass, never through an example line, and every entry the recovery pass
\* creates has all its examples from lines met with current_roots non-empty.
C19_OnlyThroughHeadingOrRecovery ==
  [][/\ HeadingContextKept
     /\ RecoveredFromHeadedLines
     /\ CreatesHeadedRoot =>
          \/ pc = "recovery"
          \/ pc = "forward" /\ i <= Len(lines)
             /\ LineKind(lines[i]) = "heading"]_vars

\* after a heading, four examples of bio- went to the heading's entries only,
\* and the recovery pass made the entry bio-
C19_Witness ==
  /\ pc = "done"
  /\ current_roots # <<>>
  /\ Len(SideExamples(BioRoot)) >= 4
  /\ FirstSeenUnderHeading(BioRoot)
  /\ \E k \in 1..Len(entries) :
       /\ entries[k].root = BioRoot
       /\ Len(entries[k].examples) = 3
       /\ RoutedTo(entries[k].id) = <<>>


\* the roots that arise in the run: those of the entries, those the forward
\* pass routed examples to, and those of the side table
RootsArisen ==
  {e.root : e \in EntrySet}
  \cup {routed[k].root : k \in 1..Len(routed)}
  \cup {derived_examples[k].root : k \in 1..Len(derived_examples)}

\* C20: the id derivation is injective on the (type, root) pairs that arise:
\* two distinct roots never have the same id, so every example the forward
\* pass routed to a target root is kept by an entry of that very root, and
\* two distinct roots are never aggregated into one entry.
C20_IdInjective ==
  /\ \A r1, r2 \in RootsArisen :
       stable_id(infer_type(r1), r1) = stable_id(infer_type(r2), r2)
         => r1 = r2
  /\ \A k \in 1..Len(routed) :
       \A j \in 1..Len(entries_by_root) :
         entries_by_root[j].id = routed[k].id =>
           entries_by_root[j].root = routed[k].root

====
